---- MODULE Spec2Model ----
(***************************************************************************)
(* Model of the batch orchestration of the Volumetrize scripts:            *)
(*   - colalign.py       : COLMAP reference frame + propagation            *)
(*   - postshot_train.py : start/count/direction batch training loop       *)
(* together with the parts they share, each looked at on its own: frame    *)
(* discovery, the propagation copy step and a single process runner call.  *)
(* Frame indices are the 0-based Python indices into the sorted list       *)
(* frame_folders; the k-th element of a TLA+ sequence is Python index k-1. *)
(***************************************************************************)
EXTENDS Integers, Sequences, FiniteSets, TLC

VARIABLES
    prog,          \* which script runs: "colalign" or "postshot"
    pc,            \* position of main()
    err,           \* exception that ended main(), "none" while running
    frame_folders, \* sorted list of frame_ directories (as frame ids)
    hasImages,     \* frame id -> the frame directory has an images folder
    dirs,          \* frame id -> directories created inside the frame
    files,         \* frame id -> artifact -> content (0 = absent)
    processed,     \* frames handed to a frame processor, in call order
    accessed,      \* raw indices used to subscript frame_folders
    invocations,   \* external tool invocations, in order, with exit code
    pos,           \* loop position (frame index / position in rng)
    rng,           \* the range object of the postshot batch loop
    start_index,   \* --start_from
    count,         \* --count
    reverse,       \* --reverse
    test_mode,     \* --test
    acked,         \* the operator passed the input() gate
    missing,       \* paths and config keys that main() will not find
    spawns,        \* child processes started (Popen / subprocess.run), in order
    inflight,      \* child processes started and not yet waited for
    runner,        \* the process runner of a single call, "none" in a script run
    rpc,           \* position of the runner
    alive,         \* the child has been started and has not exited
    script,        \* the stream of every line the child writes, in order
    wpos,          \* index in script of the next line the child writes
    exitcode,      \* the code the child exits with
    out_pipe,      \* lines in the stdout pipe, not yet read
    err_pipe,      \* lines in the stderr pipe, not yet read
    stdout_lines,  \* lines the runner has captured from stdout
    stderr_lines,  \* lines the runner has captured from stderr
    printed,       \* lines the runner has printed
    result,        \* "none", "returned" or "raised"
    error,         \* the exception the runner raised
    out_buf,       \* stdout lines read from the pipe, held by process.stdout
    err_buf,       \* stderr lines read from the pipe, held by process.stderr
    args,          \* the parsed command line
    entries,       \* the entries of the project directory: name -> kind
    listing        \* what project_path.iterdir() yields, in its order

vars == <<prog, pc, err, frame_folders, hasImages, dirs, files, processed,
          accessed, invocations, pos, rng, start_index, count, reverse,
          test_mode, acked, missing, spawns, inflight, runner, rpc, alive,
          script, wpos, exitcode, out_pipe, err_pipe, stdout_lines,
          stderr_lines, printed, result, error, out_buf, err_buf, args,
          entries, listing>>

\* the state of a script run
mainVars == <<prog, pc, err, frame_folders, hasImages, dirs, files, processed,
              accessed, invocations, pos, rng, start_index, count, reverse,
              test_mode, acked, missing, spawns, inflight, args>>

\* the state of a single runner call
runnerVars == <<runner, rpc, alive, script, wpos, exitcode, out_pipe, err_pipe,
                stdout_lines, stderr_lines, printed, result, error, out_buf,
                err_buf>>

\* the state of a frame discovery
discVars == <<entries, listing>>

----------------------------------------------------------------------------
(* Bounds of the model *)

MaxFrames == 5

MaxColFrames == 3

StartSlack == 2

MaxCount == 4

MaxMissing == 1

\* postshot projects: the first frames, at most this many, lack images
MaxNoImages == 1

----------------------------------------------------------------------------
(* Values *)

\* a child killed by a signal has a negative return code
ExitCodes == {0 - 1, 0, 1}

Artifacts == {"cameras.bin", "images.bin", "points3D.bin"}

NoFiles == [a \in Artifacts |-> 0]

\* what postshot_train.main tests with exists() before it reads the config
ConfigPaths == {"project_path", "output_path", "postshot_cli", "config_path"}

\* the keys postshot_train.main reads from _config.yaml
ConfigKeys == {"profile", "iterations", "maxNumSplats", "antiAliasing"}

FrameIds == 0 .. (Len(frame_folders) - 1)

N == Len(frame_folders)

Max(a, b) == IF a > b THEN a ELSE b

Min(a, b) == IF a < b THEN a ELSE b

\* sorted([... frame_ directories ...]) : ids in ascending order
SortedFrames(n) == [k \in 1 .. n |-> k - 1]

\* Python range(start, stop, step) for step in {1, -1}, as a sequence
PyRange(start, stop, step) ==
    IF step = 1
    THEN [k \in 1 .. Max(stop - start, 0) |-> start + (k - 1)]
    ELSE [k \in 1 .. Max(start - stop, 0) |-> start - (k - 1)]

\* Python list subscript seq[i]: an index outside [-len, len) is an IndexError
PyIndexRaises(seq, i) == i >= Len(seq) \/ i < 0 - Len(seq)

\* Python list subscript seq[i]: negative indices count from the end
PyIndex(seq, i) == IF i >= 0 THEN seq[i + 1] ELSE seq[Len(seq) + i + 1]

----------------------------------------------------------------------------
(* Process runners, as far as the orchestration sees them *)

\* a runner that ignores the return code
run_colmap_command_never_raises(code) == FALSE

\* colalign.run_colmap_command: raises iff the child exited nonzero
run_colmap_command_raises(code) == code # 0

\* a runner that takes only positive return codes for failures
run_command_raises_positive(code) == code > 0

\* postshot_train.run_command: raises iff the child exited nonzero
run_command_raises(code) == code # 0

Invocation(frame, tool, code) == [frame |-> frame, tool |-> tool, code |-> code]

\* what --colmap_exe can be: its default, or a path given on the command line
ColmapExes == {"colmap", "/opt/colmap/bin/colmap"}

\* argv[0] of a command: the COLMAP command lists start with the literal
\* "colmap"; train_frame builds postshot_cli_path / "postshot-cli.exe"
Executable(tool) ==
    IF tool = "postshot-cli train" THEN "postshot-cli.exe" ELSE "colmap"

Command(frame, tool) ==
    [exe |-> Executable(tool), frame |-> frame, tool |-> tool]

\* a runner that returns while its child is still running
NotWaited(n) == n

\* every runner returns or raises only after its child has exited
\* (subprocess.run, or a loop left only when poll() is not None)
Waited(n) == n - 1

\* the current runner call has started its child and not yet ended
ChildStarted == Len(spawns) = Len(invocations) + 1

\* colalign.create_directories: mkdir(exist_ok=True) of colmap and sparse
create_directories(d) == d \cup {"colmap", "sparse"}

----------------------------------------------------------------------------
(* Initial states: a project directory and a command line *)

\* no single runner call is looked at
RunnerIdle ==
    /\ runner = "none"
    /\ rpc = "none"
    /\ alive = FALSE
    /\ script = <<>>
    /\ wpos = 1
    /\ exitcode = 0
    /\ out_pipe = <<>>
    /\ err_pipe = <<>>
    /\ stdout_lines = <<>>
    /\ stderr_lines = <<>>
    /\ printed = <<>>
    /\ result = "none"
    /\ error = <<>>
    /\ out_buf = <<>>
    /\ err_buf = <<>>

\* no frame discovery is looked at
DiscIdle ==
    /\ entries = <<>>
    /\ listing = <<>>

InitCommon ==
    /\ RunnerIdle
    /\ DiscIdle
    /\ pc = "main"
    /\ err = "none"
    /\ dirs = [k \in FrameIds |-> {}]
    /\ files = [k \in FrameIds |-> NoFiles]
    /\ processed = <<>>
    /\ accessed = <<>>
    /\ invocations = <<>>
    /\ pos = 0
    /\ rng = <<>>
    /\ acked = FALSE
    /\ spawns = <<>>
    /\ inflight = 0

InitColalign ==
    /\ prog = "colalign"
    /\ \E n \in 0 .. MaxColFrames : frame_folders = SortedFrames(n)
    /\ hasImages \in [FrameIds -> BOOLEAN]
    /\ missing \in SUBSET {"project_path"}
    /\ args \in [colmap_exe : ColmapExes]
    /\ start_index = 0
    /\ count = 0
    /\ reverse = FALSE
    /\ test_mode = FALSE
    /\ InitCommon

InitPostshot ==
    /\ prog = "postshot"
    /\ \E n \in 0 .. MaxFrames : frame_folders = SortedFrames(n)
    /\ hasImages \in {[k \in FrameIds |-> k >= m] : m \in 0 .. MaxNoImages}
    /\ missing \in {m \in SUBSET (ConfigPaths \cup ConfigKeys) :
                       Cardinality(m) <= MaxMissing}
    /\ args \in [start_from : (0 - StartSlack) .. (MaxFrames + StartSlack),
                  count : (0 - 1) .. MaxCount,
                  reverse : BOOLEAN,
                  test : BOOLEAN]
    /\ start_index = args.start_from
    /\ count = args.count
    /\ reverse = args.reverse
    /\ test_mode = args.test
    /\ InitCommon

Init == InitColalign \/ InitPostshot

----------------------------------------------------------------------------
(* colalign.py *)

first_frame == frame_folders[1]

Raise(e) == pc' = "raised" /\ err' = e

\* What the mapper may leave in the sparse directory of the reference frame:
\* no reconstruction directory at all, or a directory "0" holding any subset
\* of the three artifact files (content 1 = as written by the mapper)
MapperOutputs ==
    {[recon |-> FALSE, out |-> NoFiles]} \cup
    {[recon |-> TRUE, out |-> f] : f \in [Artifacts -> {0, 1}]}

\* shutil.move in place of shutil.copy2: the source files are gone afterwards
MoveArtifacts(src, dst) ==
    LET ok1 == src["cameras.bin"] # 0
        ok2 == ok1 /\ src["images.bin"] # 0
        ok3 == ok2 /\ src["points3D.bin"] # 0
        moved == {a \in Artifacts :
                    \/ a = "cameras.bin" /\ ok1
                    \/ a = "images.bin" /\ ok2
                    \/ a = "points3D.bin" /\ ok3}
    IN [ok |-> ok3,
        out |-> [a \in Artifacts |-> IF a \in moved THEN src[a] ELSE dst[a]],
        src |-> [a \in Artifacts |-> IF a \in moved THEN 0 ELSE src[a]]]

\* a copy step that forgets points3D.bin
CopyArtifactsNoPoints(src, dst) ==
    LET ok1 == src["cameras.bin"] # 0
        d1 == IF ok1 THEN [dst EXCEPT !["cameras.bin"] = src["cameras.bin"]]
              ELSE dst
        ok2 == ok1 /\ src["images.bin"] # 0
        d2 == IF ok2 THEN [d1 EXCEPT !["images.bin"] = src["images.bin"]]
              ELSE d1
    IN [ok |-> ok2, out |-> d2, src |-> src]

\* a copy step that passes over a missing source file
CopyArtifactsLenient(src, dst) ==
    [ok |-> TRUE,
     out |-> [a \in Artifacts |-> IF src[a] # 0 THEN src[a] ELSE dst[a]],
     src |-> src]

\* The three shutil.copy2 calls of process_subsequent_frame, in order; the
\* first missing source raises and leaves the earlier copies in place; the
\* source files stay as they are
CopyArtifacts(src, dst) ==
    LET ok1 == src["cameras.bin"] # 0
        d1 == IF ok1 THEN [dst EXCEPT !["cameras.bin"] = src["cameras.bin"]]
              ELSE dst
        ok2 == ok1 /\ src["images.bin"] # 0
        d2 == IF ok2 THEN [d1 EXCEPT !["images.bin"] = src["images.bin"]]
              ELSE d1
        ok3 == ok2 /\ src["points3D.bin"] # 0
        d3 == IF ok3 THEN [d2 EXCEPT !["points3D.bin"] = src["points3D.bin"]]
              ELSE d2
    IN [ok |-> ok3, out |-> d3, src |-> src]

\* mkdir() without exist_ok: an existing directory is a FileExistsError
mkdir_strict(d, name) == [ok |-> name \notin d, out |-> d \cup {name}]

\* current_recon_dir.mkdir(exist_ok=True)
mkdir(d, name) == [ok |-> TRUE, out |-> d \cup {name}]

\* process_subsequent_frame from create_directories to the last copy, for a
\* frame with directories d and files f: the directories and files of the
\* frame and the files of the reference afterwards, and whether it raised
Propagate(refDirs, refFiles, d, f) ==
    IF "sparse/0" \notin refDirs
    THEN [ok |-> FALSE, dirs |-> create_directories(d), files |-> f,
          src |-> refFiles]
    ELSE LET m == mkdir(create_directories(d), "sparse/0")
             c == CopyArtifacts(refFiles, f)
         IN IF ~m.ok
            THEN [ok |-> FALSE, dirs |-> m.out, files |-> f, src |-> refFiles]
            ELSE [ok |-> c.ok, dirs |-> m.out, files |-> c.out, src |-> c.src]

\* a handler that re-raises
ExceptAbort == [pc |-> "raised", err |-> "RuntimeError"]

\* except Exception ... continue in the loop of colalign.main
ExceptContinue == [pc |-> "loop", err |-> "none"]

\* a handler that tries the same frame again
SubsequentRetry ==
    /\ pc' = ExceptContinue.pc
    /\ err' = ExceptContinue.err
    /\ pos' = pos

\* An exception inside process_subsequent_frame reaches the handler
SubsequentFailed ==
    /\ pc' = ExceptContinue.pc
    /\ err' = ExceptContinue.err
    /\ pos' = pos + 1

\* main up to the call of process_first_frame and its create_directories
ColMain ==
    /\ prog = "colalign"
    /\ pc = "main"
    /\ IF "project_path" \in missing \/ frame_folders = <<>>
       THEN Raise("RuntimeError") /\ UNCHANGED <<dirs, processed, accessed>>
       ELSE IF ~hasImages[first_frame]
       THEN /\ Raise("RuntimeError")
            /\ accessed' = Append(accessed, 0)
            /\ UNCHANGED <<dirs, processed>>
       ELSE /\ pc' = "pff_extract"
            /\ err' = err
            /\ accessed' = Append(accessed, 0)
            /\ processed' = Append(processed, first_frame)
            /\ dirs' = [dirs EXCEPT ![first_frame] = create_directories(@)]
    /\ UNCHANGED <<discVars, runnerVars, args, spawns, inflight, missing, prog, frame_folders, hasImages, files, invocations, pos,
                   rng, start_index, count, reverse, test_mode, acked>>

\* process_first_frame under the handler of the loop
PffToolCaught(at, tool, next) ==
    /\ prog = "colalign"
    /\ pc = at
    /\ ChildStarted
    /\ inflight' = Waited(inflight)
    /\ \E code \in ExitCodes :
         /\ invocations' = Append(invocations, Invocation(first_frame, tool, code))
         /\ IF run_colmap_command_raises(code)
            THEN pc' = "loop" /\ err' = err
            ELSE pc' = next /\ err' = err

\* the COLMAP command of each step of the two frame processors
ColTool ==
    [p \in {"pff_extract", "pff_match", "pff_mapper",
            "psf_extract", "psf_match", "psf_triangulate"} |->
       CASE p \in {"pff_extract", "psf_extract"} -> "feature_extractor"
         [] p \in {"pff_match", "psf_match"} -> "exhaustive_matcher"
         [] p = "pff_mapper" -> "mapper"
         [] p = "psf_triangulate" -> "point_triangulator"]

\* the frame the current step of colalign works on
ColFrame ==
    IF pc \in {"pff_extract", "pff_match", "pff_mapper"} THEN first_frame
    ELSE frame_folders[pos + 1]

\* subprocess.run starts the child of the current COLMAP step
ColPopen ==
    /\ prog = "colalign"
    /\ pc \in DOMAIN ColTool
    /\ ~ChildStarted
    /\ spawns' = Append(spawns, Command(ColFrame, ColTool[pc]))
    /\ inflight' = inflight + 1
    /\ UNCHANGED <<discVars, runnerVars, args, missing, prog, pc, err, frame_folders, hasImages, dirs,
                   files, processed, accessed, invocations, pos, rng,
                   start_index, count, reverse, test_mode, acked>>

\* process_first_frame going on to its next step after a failed command
PffToolKeepsGoing(at, tool, next) ==
    /\ prog = "colalign"
    /\ pc = at
    /\ ChildStarted
    /\ inflight' = Waited(inflight)
    /\ \E code \in ExitCodes :
         /\ invocations' = Append(invocations, Invocation(first_frame, tool, code))
         /\ pc' = next
         /\ err' = err

\* One run_colmap_command of process_first_frame
PffTool(at, tool, next) ==
    /\ prog = "colalign"
    /\ pc = at
    /\ ChildStarted
    /\ inflight' = Waited(inflight)
    /\ \E code \in ExitCodes :
         /\ invocations' = Append(invocations, Invocation(first_frame, tool, code))
         /\ IF run_colmap_command_raises(code)
            THEN Raise("RuntimeError")
            ELSE pc' = next /\ err' = err

PffExtract ==
    /\ PffTool("pff_extract", "feature_extractor", "pff_match")
    /\ UNCHANGED <<discVars, runnerVars, args, spawns, missing, prog, frame_folders, hasImages, dirs, files, processed,
                   accessed, pos, rng, start_index, count, reverse, test_mode,
                   acked>>

PffMatch ==
    /\ PffTool("pff_match", "exhaustive_matcher", "pff_mapper")
    /\ UNCHANGED <<discVars, runnerVars, args, spawns, missing, prog, frame_folders, hasImages, dirs, files, processed,
                   accessed, pos, rng, start_index, count, reverse, test_mode,
                   acked>>

\* The mapper writes its reconstruction below sparse/; on success
\* process_first_frame returns and main enters the loop over frame_folders[1:]
PffMapper ==
    /\ PffTool("pff_mapper", "mapper", "loop")
    /\ IF pc' = "loop"
       THEN \E m \in MapperOutputs :
              /\ dirs' = [dirs EXCEPT ![first_frame] =
                            IF m.recon THEN @ \cup {"sparse/0"} ELSE @]
              /\ files' = [files EXCEPT ![first_frame] = m.out]
              /\ pos' = 1
       ELSE UNCHANGED <<dirs, files, pos>>
    /\ UNCHANGED <<discVars, runnerVars, args, spawns, missing, prog, frame_folders, hasImages, processed, accessed, rng,
                   start_index, count, reverse, test_mode, acked>>

\* One iteration head of the loop: skip a frame without images, or enter
\* process_subsequent_frame up to the end of the artifact copy
ColLoop ==
    /\ prog = "colalign"
    /\ pc = "loop"
    /\ IF pos >= N
       THEN /\ pc' = "done"
            /\ UNCHANGED <<err, pos, dirs, files, processed, accessed>>
       ELSE LET f == frame_folders[pos + 1] IN
            IF ~hasImages[f]
            THEN /\ pos' = pos + 1
                 /\ accessed' = Append(accessed, pos)
                 /\ UNCHANGED <<pc, err, dirs, files, processed>>
            ELSE /\ accessed' = Append(accessed, pos)
                 /\ processed' = Append(processed, f)
                 /\ LET r == Propagate(dirs[first_frame], files[first_frame],
                                         dirs[f], files[f]) IN
                      /\ dirs' = [dirs EXCEPT ![f] = r.dirs]
                      /\ files' = [files EXCEPT ![f] = r.files,
                                                ![first_frame] = r.src]
                      /\ IF r.ok
                         THEN pc' = "psf_extract" /\ UNCHANGED <<err, pos>>
                         ELSE SubsequentFailed
    /\ UNCHANGED <<discVars, runnerVars, args, spawns, inflight, missing, prog, frame_folders, hasImages, invocations, rng,
                   start_index, count, reverse, test_mode, acked>>

\* process_subsequent_frame called outside the try of the loop
PsfToolUncaught(at, tool, next) ==
    /\ prog = "colalign"
    /\ pc = at
    /\ ChildStarted
    /\ inflight' = Waited(inflight)
    /\ \E code \in ExitCodes :
         /\ invocations' =
              Append(invocations, Invocation(frame_folders[pos + 1], tool, code))
         /\ IF run_colmap_command_raises(code)
            THEN Raise("RuntimeError") /\ pos' = pos
            ELSE pc' = next /\ err' = err /\ pos' = IF next = "loop" THEN pos + 1 ELSE pos

\* process_subsequent_frame going on to its next step after a failed command
PsfToolKeepsGoing(at, tool, next) ==
    /\ prog = "colalign"
    /\ pc = at
    /\ ChildStarted
    /\ inflight' = Waited(inflight)
    /\ \E code \in ExitCodes :
         /\ invocations' =
              Append(invocations, Invocation(frame_folders[pos + 1], tool, code))
         /\ pc' = next
         /\ err' = err
         /\ pos' = IF next = "loop" THEN pos + 1 ELSE pos

\* One run_colmap_command of process_subsequent_frame
PsfTool(at, tool, next) ==
    /\ prog = "colalign"
    /\ pc = at
    /\ ChildStarted
    /\ inflight' = Waited(inflight)
    /\ \E code \in ExitCodes :
         /\ invocations' =
              Append(invocations, Invocation(frame_folders[pos + 1], tool, code))
         /\ IF run_colmap_command_raises(code)
            THEN SubsequentFailed
            ELSE pc' = next /\ err' = err /\ pos' = IF next = "loop" THEN pos + 1 ELSE pos

PsfExtract ==
    /\ PsfTool("psf_extract", "feature_extractor", "psf_match")
    /\ UNCHANGED <<discVars, runnerVars, args, spawns, missing, prog, frame_folders, hasImages, dirs, files, processed,
                   accessed, rng, start_index, count, reverse, test_mode, acked>>

PsfMatch ==
    /\ PsfTool("psf_match", "exhaustive_matcher", "psf_triangulate")
    /\ UNCHANGED <<discVars, runnerVars, args, spawns, missing, prog, frame_folders, hasImages, dirs, files, processed,
                   accessed, rng, start_index, count, reverse, test_mode, acked>>

\* point_triangulator reads and writes the frame's own sparse/0: it may
\* rewrite any of the copied files (content 2 = as written by the triangulator)
PsfTriangulate ==
    /\ PsfTool("psf_triangulate", "point_triangulator", "loop")
    /\ \E w \in SUBSET Artifacts :
         files' = [files EXCEPT ![frame_folders[pos + 1]] =
                     [a \in Artifacts |-> IF a \in w THEN 2 ELSE @[a]]]
    /\ UNCHANGED <<discVars, runnerVars, args, spawns, missing, prog, frame_folders, hasImages, dirs, processed, accessed,
                   rng, start_index, count, reverse, test_mode, acked>>

ColNext ==
    \/ ColPopen
    \/ ColMain
    \/ PffExtract
    \/ PffMatch
    \/ PffMapper
    \/ ColLoop
    \/ PsfExtract
    \/ PsfMatch
    \/ PsfTriangulate

----------------------------------------------------------------------------
(* postshot_train.py *)

\* forward range that forgets the start index
ForwardRangeFromZero(start, cnt) == PyRange(0, start + cnt, 1)

\* forward range with one item too many
ForwardRangeOneMore(start, cnt) == PyRange(start, start + cnt + 1, 1)

\* bounds test without the lower bound
InvalidIndexUpperOnly(i, n) == i >= n

\* range(start_index, start_index - count - 1, -1) of the reverse loop
ReverseRange(start, cnt) == PyRange(start, start - cnt - 1, 0 - 1)

\* range(start_index, start_index + count) of the forward loop
ForwardRange(start, cnt) == PyRange(start, start + cnt, 1)

\* if i < 0 or i >= len(frame_folders)
InvalidIndex(i, n) == i < 0 \/ i >= n

\* a count taken as given
DefaultCountKept(cnt, n) == cnt

\* if count <= 0: count = len(frame_folders)
DefaultCount(cnt, n) == IF cnt <= 0 THEN n ELSE cnt

\* train_frame(frame_folders[i], ...): subscript, then one run_command.
\* An exception leaves main; a zero exit continues at `next`.
train_frame(i, next) ==
    /\ accessed' = Append(accessed, i)
    /\ IF PyIndexRaises(frame_folders, i)
       THEN Raise("IndexError") /\ UNCHANGED <<processed, invocations, inflight>>
       ELSE LET f == PyIndex(frame_folders, i) IN
            /\ ChildStarted
            /\ inflight' = Waited(inflight)
            /\ processed' = Append(processed, f)
            /\ \E code \in ExitCodes :
                 /\ invocations' =
                      Append(invocations, Invocation(f, "postshot-cli train", code))
                 /\ IF run_command_raises(code)
                    THEN Raise("RuntimeError")
                    ELSE pc' = next /\ err' = err

\* a main that reads the config keys only when a frame is trained
ConfigErrorPathsOnly(m) ==
    IF m \cap ConfigPaths # {} THEN "RuntimeError" ELSE "none"

\* the exists() tests of main, then the reads of the four config keys
ConfigError(m) ==
    IF m \cap ConfigPaths # {} THEN "RuntimeError"
    ELSE IF m \cap ConfigKeys # {} THEN "KeyError"
    ELSE "none"

\* a main without the input() call
AfterSetupNoGate == "dispatch"

\* input("Press Enter to start processing frames...") follows the setup
AfterSetup == "gate"

\* main up to the summary printed before the operator gate
PsMain ==
    /\ prog = "postshot"
    /\ pc = "main"
    /\ IF ConfigError(missing) # "none"
       THEN Raise(ConfigError(missing))
       ELSE IF frame_folders = <<>>
       THEN Raise("RuntimeError")
       ELSE pc' = AfterSetup /\ err' = err
    /\ UNCHANGED <<discVars, runnerVars, args, spawns, inflight, missing, prog, frame_folders, hasImages, dirs, files, processed,
                   accessed, invocations, pos, rng, start_index, count,
                   reverse, test_mode, acked>>

\* input("Press Enter ..."): returns, or the operator interrupts the run
PsGate ==
    /\ prog = "postshot"
    /\ pc = "gate"
    /\ \E ack \in BOOLEAN :
         IF ack
         THEN pc' = "dispatch" /\ err' = err /\ acked' = TRUE
         ELSE Raise("KeyboardInterrupt") /\ acked' = acked
    /\ UNCHANGED <<discVars, runnerVars, args, spawns, inflight, missing, prog, frame_folders, hasImages, dirs, files, processed,
                   accessed, invocations, pos, rng, start_index, count,
                   reverse, test_mode>>

\* the index main is about to hand to train_frame
PsIndex == IF pc = "dispatch" THEN 0 ELSE rng[pos]

\* main stands before a train_frame call whose subscript succeeds
PsAtTrain ==
    /\ \/ pc = "dispatch" /\ test_mode
       \/ /\ pc \in {"reverse", "forward"}
          /\ pos <= Len(rng)
          /\ ~InvalidIndex(rng[pos], N)
    /\ ~PyIndexRaises(frame_folders, PsIndex)

\* subprocess.Popen in run_command starts postshot-cli for the frame
PsPopen ==
    /\ prog = "postshot"
    /\ PsAtTrain
    /\ ~ChildStarted
    /\ spawns' = Append(spawns, Command(PyIndex(frame_folders, PsIndex),
                                        "postshot-cli train"))
    /\ inflight' = inflight + 1
    /\ UNCHANGED <<discVars, runnerVars, args, missing, prog, pc, err, frame_folders, hasImages, dirs,
                   files, processed, accessed, invocations, pos, rng,
                   start_index, count, reverse, test_mode, acked>>

\* test mode that honours the start index
PsTestFromStart ==
    /\ prog = "postshot"
    /\ pc = "dispatch"
    /\ test_mode
    /\ train_frame(start_index, "done")
    /\ UNCHANGED <<discVars, runnerVars, args, spawns, missing, prog, frame_folders, hasImages, dirs, files, pos, rng,
                   start_index, count, reverse, test_mode, acked>>

\* if test_mode: train the first frame and return
PsTest ==
    /\ prog = "postshot"
    /\ pc = "dispatch"
    /\ test_mode
    /\ train_frame(0, "done")
    /\ UNCHANGED <<discVars, runnerVars, args, spawns, missing, prog, frame_folders, hasImages, dirs, files, pos, rng,
                   start_index, count, reverse, test_mode, acked>>

\* count defaulting and the creation of the range of the selected loop
PsPlan ==
    /\ prog = "postshot"
    /\ pc = "dispatch"
    /\ ~test_mode
    /\ count' = DefaultCount(count, N)
    /\ rng' = IF reverse THEN ReverseRange(start_index, count')
              ELSE ForwardRange(start_index, count')
    /\ pos' = 1
    /\ pc' = IF reverse THEN "reverse" ELSE "forward"
    /\ UNCHANGED <<discVars, runnerVars, args, spawns, inflight, missing, prog, err, frame_folders, hasImages, dirs, files, processed,
                   accessed, invocations, start_index, reverse, test_mode,
                   acked>>

\* One iteration of a batch loop: range exhausted, break, or train_frame
PsIter(at) ==
    /\ prog = "postshot"
    /\ pc = at
    /\ IF pos > Len(rng)
       THEN /\ pc' = "done"
            /\ UNCHANGED <<err, pos, processed, accessed, invocations, inflight>>
       ELSE IF InvalidIndex(rng[pos], N)
       THEN /\ pc' = "done"
            /\ UNCHANGED <<err, pos, processed, accessed, invocations, inflight>>
       ELSE /\ train_frame(rng[pos], at)
            /\ pos' = pos + 1
    /\ UNCHANGED <<discVars, runnerVars, args, spawns, missing, prog, frame_folders, hasImages, dirs, files, rng,
                   start_index, count, reverse, test_mode, acked>>

PsReverse == PsIter("reverse")

PsForward == PsIter("forward")

PsNext ==
    \/ PsPopen
    \/ PsMain
    \/ PsGate
    \/ PsTest
    \/ PsPlan
    \/ PsReverse
    \/ PsForward

Next == ColNext \/ PsNext

----------------------------------------------------------------------------
(* The propagation step on its own, repeated on one subsequent frame whose  *)
(* workspace may already hold directories and files of an earlier run       *)

MaxCopies == 2

\* the directories a frame can hold: sparse/0 lies inside sparse
FrameDirs == {d \in SUBSET {"colmap", "sparse", "sparse/0"} :
                "sparse/0" \in d => "sparse" \in d}

\* frame 0 as process_first_frame may have left it, frame 1 with any older
\* workspace
CopyInit ==
    /\ prog = "copy"
    /\ frame_folders = SortedFrames(2)
    /\ hasImages = [k \in FrameIds |-> TRUE]
    /\ missing = {}
    /\ start_index = 0
    /\ count = 0
    /\ reverse = FALSE
    /\ test_mode = FALSE
    /\ pc = "copy"
    /\ err = "none"
    /\ \E m \in MapperOutputs, d \in FrameDirs, f \in [Artifacts -> 0 .. 2] :
         /\ dirs = [k \in FrameIds |->
                      IF k = 1 THEN d
                      ELSE IF m.recon THEN {"colmap", "sparse", "sparse/0"}
                      ELSE {"colmap", "sparse"}]
         /\ files = [k \in FrameIds |->
                       IF k = 0 THEN m.out
                       ELSE IF "sparse/0" \in d THEN f ELSE NoFiles]
    /\ processed = <<>>
    /\ accessed = <<>>
    /\ invocations = <<>>
    /\ pos = 0
    /\ rng = <<>>
    /\ acked = FALSE
    /\ spawns = <<>>
    /\ inflight = 0
    /\ args = [colmap_exe |-> "colmap"]
    /\ RunnerIdle
    /\ DiscIdle

\* one more run of the propagation step for frame 1
CopyStep ==
    /\ prog = "copy"
    /\ pc = "copy"
    /\ pos < MaxCopies
    /\ LET r == Propagate(dirs[0], files[0], dirs[1], files[1]) IN
         /\ dirs' = [dirs EXCEPT ![1] = r.dirs]
         /\ files' = [files EXCEPT ![1] = r.files, ![0] = r.src]
         /\ IF r.ok THEN pc' = pc /\ err' = err ELSE Raise("RuntimeError")
    /\ pos' = pos + 1
    /\ UNCHANGED <<discVars, runnerVars, args, spawns, inflight, missing, prog, frame_folders, hasImages,
                   processed, accessed, invocations, rng, start_index, count,
                   reverse, test_mode, acked>>

CopyNext == CopyStep

CopySpec == CopyInit /\ [][CopyNext]_vars

Spec == Init /\ [][Next]_vars

----------------------------------------------------------------------------
(* One call of a process runner and its child process.  A string is the     *)
(* sequence of its characters, "LF" being the newline.  A pipe holds the    *)
(* lines written and not yet read; out_buf and err_buf hold the lines the   *)
(* buffered file objects process.stdout and process.stderr have read from   *)
(* their pipe and not yet handed out.                                       *)

MaxLines == 3

PipeCap == 2

Runners == {"run_command", "run_command_adv", "run_colmap_command"}

Streams == {"out", "err"}

\* the text of a line the child writes, without its newline
Texts == {<<>>, <<"a">>, <<"b">>}

\* what communicate() reads from after readline() calls on the same pipe:
\* the file descriptor (POSIX) or the file object (Windows)
Platforms == {"posix", "nt"}

Whitespace == {"LF", " "}

\* every sequence over S of length at most n
SeqsUpTo(S, n) == UNION {[1 .. k -> S] : k \in 0 .. n}

\* the concatenation of the strings of q
RECURSIVE Flatten(_)
Flatten(q) == IF q = <<>> THEN <<>> ELSE Head(q) \o Flatten(Tail(q))

RECURSIVE lstrip(_)
lstrip(t) ==
    IF t = <<>> \/ Head(t) \notin Whitespace THEN t ELSE lstrip(Tail(t))

RECURSIVE rstrip(_)
rstrip(t) ==
    IF t = <<>> \/ t[Len(t)] \notin Whitespace THEN t
    ELSE rstrip(SubSeq(t, 1, Len(t) - 1))

\* str.strip()
strip(t) == rstrip(lstrip(t))

\* str.split('\n')
RECURSIVE split(_)
split(t) ==
    IF \A i \in 1 .. Len(t) : t[i] # "LF" THEN <<t>>
    ELSE LET i == CHOOSE i \in 1 .. Len(t) :
                     t[i] = "LF" /\ \A j \in 1 .. (i - 1) : t[j] # "LF"
         IN <<SubSeq(t, 1, i - 1)>> \o split(SubSeq(t, i + 1, Len(t)))

\* the lines run_command_adv takes from what communicate() returned:
\* [line for line in remaining.strip().split('\n') if line], nothing when
\* remaining is empty
RemainingLines(remaining) ==
    IF remaining = <<>> THEN <<>>
    ELSE SelectSeq(split(strip(remaining)), LAMBDA line : line # <<>>)

\* process.communicate() after the loop, for one stream: everything up to
\* end of file; on POSIX it reads the descriptor, so that lines held by the
\* file object are not returned
communicate(platform, buf, pipe) ==
    IF platform = "posix" THEN Flatten(pipe) ELSE Flatten(buf \o pipe)

\* readline() has something to return: a line, or '' at end of file
CanRead(buf, pipe) == buf # <<>> \/ pipe # <<>> \/ ~alive

\* readline() on a buffered pipe: a held line if there is one, else one read
\* of the pipe takes what is there and the first line is returned; '' at end
\* of file
readline(buf, pipe) ==
    IF buf # <<>> THEN [line |-> Head(buf), buf |-> Tail(buf), pipe |-> pipe]
    ELSE IF pipe # <<>> THEN [line |-> Head(pipe), buf |-> Tail(pipe), pipe |-> <<>>]
    ELSE [line |-> <<>>, buf |-> buf, pipe |-> pipe]

\* postshot_train.run_command_adv: raises iff the return code is not 0
run_command_adv_raises(code) == code # 0

\* RuntimeError(f"... failed with return code {return_code}"): the message
\* holds the return code and nothing else
RuntimeErrorOf(code) == [returncode |-> code]

\* print(f"{tag}{text}")
Printed(tag, text) == [tag |-> tag, text |-> text]

\* run_command opens the child with stderr=subprocess.STDOUT: one pipe
StreamOf(k) == IF runner = "run_command" THEN "out" ELSE script[k].stream

RunnerInit ==
    /\ prog = "runner"
    /\ frame_folders = <<>>
    /\ hasImages = <<>>
    /\ missing = {}
    /\ start_index = 0
    /\ count = 0
    /\ reverse = FALSE
    /\ test_mode = FALSE
    /\ pc = "main"
    /\ err = "none"
    /\ dirs = <<>>
    /\ files = <<>>
    /\ processed = <<>>
    /\ accessed = <<>>
    /\ invocations = <<>>
    /\ pos = 0
    /\ rng = <<>>
    /\ acked = FALSE
    /\ spawns = <<>>
    /\ inflight = 0
    /\ runner \in Runners
    /\ rpc = "popen"
    /\ alive = FALSE
    /\ script \in SeqsUpTo([stream : Streams, text : Texts], MaxLines)
    /\ wpos = 1
    /\ exitcode \in ExitCodes
    /\ out_pipe = <<>>
    /\ err_pipe = <<>>
    /\ stdout_lines = <<>>
    /\ stderr_lines = <<>>
    /\ printed = <<>>
    /\ result = "none"
    /\ error = <<>>
    /\ out_buf = <<>>
    /\ err_buf = <<>>
    /\ args = <<>>
    /\ DiscIdle

\* subprocess.Popen / subprocess.run starts the child
RunPopen ==
    /\ prog = "runner"
    /\ rpc = "popen"
    /\ alive' = TRUE
    /\ rpc' = CASE runner = "run_command" -> "readline"
               [] runner = "run_command_adv" -> "poll"
               [] runner = "run_colmap_command" -> "communicate"
    /\ UNCHANGED <<discVars, mainVars, out_buf, err_buf, runner, script, wpos,
                   exitcode, out_pipe, err_pipe, stdout_lines, stderr_lines,
                   printed, result, error>>

\* the child writes its next line; it blocks while the pipe is full
ChildWrite ==
    /\ prog = "runner"
    /\ alive
    /\ wpos <= Len(script)
    /\ IF StreamOf(wpos) = "out"
       THEN /\ Len(out_pipe) < PipeCap
            /\ out_pipe' = Append(out_pipe, script[wpos].text \o <<"LF">>)
            /\ err_pipe' = err_pipe
       ELSE /\ Len(err_pipe) < PipeCap
            /\ err_pipe' = Append(err_pipe, script[wpos].text \o <<"LF">>)
            /\ out_pipe' = out_pipe
    /\ wpos' = wpos + 1
    /\ UNCHANGED <<discVars, mainVars, out_buf, err_buf, runner, rpc, alive,
                   script, exitcode, stdout_lines, stderr_lines, printed,
                   result, error>>

\* the child has written everything and exits, closing its pipes
ChildExit ==
    /\ prog = "runner"
    /\ alive
    /\ wpos > Len(script)
    /\ alive' = FALSE
    /\ UNCHANGED <<discVars, mainVars, out_buf, err_buf, runner, rpc, script,
                   wpos, exitcode, out_pipe, err_pipe, stdout_lines,
                   stderr_lines, printed, result, error>>

\* run_command: readline() gives the next line, which is printed and
\* captured stripped, or '' at end of file, where poll() is not None ends
\* the loop
RcReadline ==
    /\ prog = "runner"
    /\ runner = "run_command"
    /\ rpc = "readline"
    /\ CanRead(out_buf, out_pipe)
    /\ LET r == readline(out_buf, out_pipe) IN
         /\ out_buf' = r.buf
         /\ out_pipe' = r.pipe
         /\ IF r.line # <<>>
            THEN /\ printed' = Append(printed, Printed("", strip(r.line)))
                 /\ stdout_lines' = Append(stdout_lines, strip(r.line))
                 /\ rpc' = rpc
            ELSE /\ rpc' = "check"
                 /\ UNCHANGED <<printed, stdout_lines>>
    /\ UNCHANGED <<discVars, mainVars, err_buf, runner, alive, script, wpos,
                   exitcode, err_pipe, stderr_lines, result, error>>

\* run_command: return_code = process.poll(), raise or return it
RcFinish ==
    /\ prog = "runner"
    /\ runner = "run_command"
    /\ rpc = "check"
    /\ rpc' = "end"
    /\ IF run_command_raises(exitcode)
       THEN result' = "raised" /\ error' = RuntimeErrorOf(exitcode)
       ELSE result' = "returned" /\ error' = error
    /\ UNCHANGED <<discVars, mainVars, out_buf, err_buf, runner, alive, script,
                   wpos, exitcode, out_pipe, err_pipe, stdout_lines,
                   stderr_lines, printed>>

\* run_command_adv: the poll() at the head of the loop
AdvPoll ==
    /\ prog = "runner"
    /\ runner = "run_command_adv"
    /\ rpc = "poll"
    /\ rpc' = IF alive THEN "read_out" ELSE "drain"
    /\ UNCHANGED <<discVars, mainVars, out_buf, err_buf, runner, alive, script,
                   wpos, exitcode, out_pipe, err_pipe, stdout_lines,
                   stderr_lines, printed, result, error>>

\* run_command_adv: process.stdout.readline() blocks for a line or end of file
AdvReadOut ==
    /\ prog = "runner"
    /\ runner = "run_command_adv"
    /\ rpc = "read_out"
    /\ CanRead(out_buf, out_pipe)
    /\ LET r == readline(out_buf, out_pipe) IN
         /\ out_buf' = r.buf
         /\ out_pipe' = r.pipe
         /\ IF r.line # <<>>
            THEN /\ printed' = Append(printed, Printed("OUT: ", strip(r.line)))
                 /\ stdout_lines' = Append(stdout_lines, strip(r.line))
            ELSE UNCHANGED <<printed, stdout_lines>>
    /\ rpc' = "read_err"
    /\ UNCHANGED <<discVars, mainVars, err_buf, runner, alive, script, wpos,
                   exitcode, err_pipe, stderr_lines, result, error>>

\* run_command_adv: process.stderr.readline() blocks for a line or end of file
AdvReadErr ==
    /\ prog = "runner"
    /\ runner = "run_command_adv"
    /\ rpc = "read_err"
    /\ CanRead(err_buf, err_pipe)
    /\ LET r == readline(err_buf, err_pipe) IN
         /\ err_buf' = r.buf
         /\ err_pipe' = r.pipe
         /\ IF r.line # <<>>
            THEN /\ printed' = Append(printed, Printed("ERR: ", strip(r.line)))
                 /\ stderr_lines' = Append(stderr_lines, strip(r.line))
            ELSE UNCHANGED <<printed, stderr_lines>>
    /\ rpc' = "poll"
    /\ UNCHANGED <<discVars, mainVars, out_buf, runner, alive, script, wpos,
                   exitcode, out_pipe, stdout_lines, result, error>>

\* run_command_adv: communicate() after the loop collects the rest of both
\* streams; its non-empty lines are printed and captured
AdvDrain ==
    /\ prog = "runner"
    /\ runner = "run_command_adv"
    /\ rpc = "drain"
    /\ \E platform \in Platforms :
         LET remaining_stdout ==
                 RemainingLines(communicate(platform, out_buf, out_pipe))
             remaining_stderr ==
                 RemainingLines(communicate(platform, err_buf, err_pipe))
         IN /\ stdout_lines' = stdout_lines \o remaining_stdout
            /\ stderr_lines' = stderr_lines \o remaining_stderr
            /\ printed' = printed
                 \o [k \in 1 .. Len(remaining_stdout) |->
                        Printed("OUT: ", remaining_stdout[k])]
                 \o [k \in 1 .. Len(remaining_stderr) |->
                        Printed("ERR: ", remaining_stderr[k])]
    /\ out_pipe' = <<>>
    /\ err_pipe' = <<>>
    /\ out_buf' = <<>>
    /\ err_buf' = <<>>
    /\ rpc' = "check"
    /\ UNCHANGED <<discVars, mainVars, runner, alive, script, wpos, exitcode,
                   result, error>>

\* run_command_adv: raise on a nonzero return code, else return the Result
AdvFinish ==
    /\ prog = "runner"
    /\ runner = "run_command_adv"
    /\ rpc = "check"
    /\ rpc' = "end"
    /\ IF run_command_adv_raises(exitcode)
       THEN result' = "raised" /\ error' = RuntimeErrorOf(exitcode)
       ELSE result' = "returned" /\ error' = error
    /\ UNCHANGED <<discVars, mainVars, out_buf, err_buf, runner, alive, script,
                   wpos, exitcode, out_pipe, err_pipe, stdout_lines,
                   stderr_lines, printed>>

\* run_colmap_command: subprocess.run(capture_output=True) reads both pipes
\* into its buffers while the child runs; nothing is printed
ColCapture ==
    /\ prog = "runner"
    /\ runner = "run_colmap_command"
    /\ rpc = "communicate"
    /\ \/ /\ out_pipe # <<>>
          /\ stdout_lines' = Append(stdout_lines, Head(out_pipe))
          /\ out_pipe' = Tail(out_pipe)
          /\ UNCHANGED <<stderr_lines, err_pipe>>
       \/ /\ err_pipe # <<>>
          /\ stderr_lines' = Append(stderr_lines, Head(err_pipe))
          /\ err_pipe' = Tail(err_pipe)
          /\ UNCHANGED <<stdout_lines, out_pipe>>
    /\ UNCHANGED <<discVars, mainVars, out_buf, err_buf, runner, rpc, alive,
                   script, wpos, exitcode, printed, result, error>>

\* run_colmap_command: subprocess.run returns once both pipes are at end of
\* file and the child has been waited for
ColWait ==
    /\ prog = "runner"
    /\ runner = "run_colmap_command"
    /\ rpc = "communicate"
    /\ ~alive
    /\ out_pipe = <<>>
    /\ err_pipe = <<>>
    /\ rpc' = "check"
    /\ UNCHANGED <<discVars, mainVars, out_buf, err_buf, runner, alive, script,
                   wpos, exitcode, out_pipe, err_pipe, stdout_lines,
                   stderr_lines, printed, result, error>>

\* run_colmap_command: on a nonzero return code print the captured stdout
\* and stderr and raise, else return the result
ColFinish ==
    /\ prog = "runner"
    /\ runner = "run_colmap_command"
    /\ rpc = "check"
    /\ rpc' = "end"
    /\ IF run_colmap_command_raises(exitcode)
       THEN /\ printed' = printed
                 \o <<Printed("stdout: ", Flatten(stdout_lines)),
                      Printed("stderr: ", Flatten(stderr_lines))>>
            /\ result' = "raised"
            /\ error' = RuntimeErrorOf(exitcode)
       ELSE /\ result' = "returned"
            /\ UNCHANGED <<printed, error>>
    /\ UNCHANGED <<discVars, mainVars, out_buf, err_buf, runner, alive, script,
                   wpos, exitcode, out_pipe, err_pipe, stdout_lines,
                   stderr_lines>>

RunnerNext ==
    \/ RunPopen
    \/ ChildWrite
    \/ ChildExit
    \/ RcReadline
    \/ RcFinish
    \/ AdvPoll
    \/ AdvReadOut
    \/ AdvReadErr
    \/ AdvDrain
    \/ AdvFinish
    \/ ColCapture
    \/ ColWait
    \/ ColFinish

RunnerSpec == RunnerInit /\ [][RunnerNext]_vars

\* the child and the runner both keep running while they can
RunnerFairSpec == RunnerSpec /\ WF_vars(RunnerNext)

----------------------------------------------------------------------------
(* Frame discovery on its own: the directory listing, the filter and the    *)
(* sort of main.  A name is the sequence of the code points of its          *)
(* characters.                                                              *)

MaxEntries == 3

\* "frame_"
FramePrefix == <<102, 114, 97, 109, 101, 95>>

\* "frame_", "frame" and "data_"
Stems == {FramePrefix, <<102, 114, 97, 109, 101>>, <<100, 97, 116, 97, 95>>}

\* "", "1", "12" and "2"
Tails == {<<>>, <<49>>, <<49, 50>>, <<50>>}

Names == {s \o t : s \in Stems, t \in Tails}

Kinds == {"dir", "file"}

\* str.startswith
startswith(name, prefix) ==
    /\ Len(name) >= Len(prefix)
    /\ SubSeq(name, 1, Len(prefix)) = prefix

\* a < b for two strings: the first differing code point decides, and a
\* proper prefix is the smaller
RECURSIVE StrLess(_, _)
StrLess(a, b) ==
    IF b = <<>> THEN FALSE
    ELSE IF a = <<>> THEN TRUE
    ELSE IF Head(a) # Head(b) THEN Head(a) < Head(b)
    ELSE StrLess(Tail(a), Tail(b))

\* a list left in the order of the directory listing
unsorted(q) == q

\* sorted(): the elements of q in ascending order, by insertion
RECURSIVE sorted(_)
sorted(q) ==
    IF q = <<>> THEN <<>>
    ELSE LET rest == sorted(Tail(q))
             k == Cardinality({j \in 1 .. Len(rest) : StrLess(rest[j], Head(q))})
         IN SubSeq(rest, 1, k) \o <<Head(q)>> \o SubSeq(rest, k + 1, Len(rest))

\* every order in which the set S can be listed
Orders(S) ==
    {q \in [1 .. Cardinality(S) -> S] : \A i, j \in DOMAIN q : i # j => q[i] # q[j]}

\* d.is_dir() and d.name.startswith("frame_")
IsFrameDir(d) == entries[d] = "dir" /\ startswith(d, FramePrefix)

DiscInit ==
    /\ prog = "discover"
    /\ \E S \in {T \in SUBSET Names : Cardinality(T) <= MaxEntries} :
         entries \in [S -> Kinds]
    /\ listing = <<>>
    /\ frame_folders = <<>>
    /\ hasImages = <<>>
    /\ missing = {}
    /\ start_index = 0
    /\ count = 0
    /\ reverse = FALSE
    /\ test_mode = FALSE
    /\ pc = "iterdir"
    /\ err = "none"
    /\ dirs = <<>>
    /\ files = <<>>
    /\ processed = <<>>
    /\ accessed = <<>>
    /\ invocations = <<>>
    /\ pos = 0
    /\ rng = <<>>
    /\ acked = FALSE
    /\ spawns = <<>>
    /\ inflight = 0
    /\ args = <<>>
    /\ RunnerIdle

\* project_path.iterdir(): every entry once, in an order the OS chooses
DiscIterdir ==
    /\ prog = "discover"
    /\ pc = "iterdir"
    /\ listing' \in Orders(DOMAIN entries)
    /\ pc' = "filter"
    /\ UNCHANGED <<runnerVars, entries, prog, err, frame_folders, hasImages,
                   dirs, files, processed, accessed, invocations, pos, rng,
                   start_index, count, reverse, test_mode, acked, missing,
                   spawns, inflight, args>>

\* [d for d in ... if d.is_dir() and d.name.startswith("frame_")]
DiscFilter ==
    /\ prog = "discover"
    /\ pc = "filter"
    /\ frame_folders' = SelectSeq(listing, IsFrameDir)
    /\ pc' = "sort"
    /\ UNCHANGED <<runnerVars, discVars, prog, err, hasImages, dirs, files,
                   processed, accessed, invocations, pos, rng, start_index,
                   count, reverse, test_mode, acked, missing, spawns, inflight,
                   args>>

\* frame_folders = sorted([...])
DiscSort ==
    /\ prog = "discover"
    /\ pc = "sort"
    /\ frame_folders' = sorted(frame_folders)
    /\ pc' = "check"
    /\ UNCHANGED <<runnerVars, discVars, prog, err, hasImages, dirs, files,
                   processed, accessed, invocations, pos, rng, start_index,
                   count, reverse, test_mode, acked, missing, spawns, inflight,
                   args>>

\* if not frame_folders: raise RuntimeError("No frame folders found ...")
DiscCheck ==
    /\ prog = "discover"
    /\ pc = "check"
    /\ IF frame_folders = <<>>
       THEN Raise("RuntimeError")
       ELSE pc' = "found" /\ err' = err
    /\ UNCHANGED <<runnerVars, discVars, prog, frame_folders, hasImages, dirs,
                   files, processed, accessed, invocations, pos, rng,
                   start_index, count, reverse, test_mode, acked, missing,
                   spawns, inflight, args>>

DiscNext ==
    \/ DiscIterdir
    \/ DiscFilter
    \/ DiscSort
    \/ DiscCheck

DiscoverSpec == DiscInit /\ [][DiscNext]_vars

\* The statements of a script run one after the other and every tool exits
FairSpec == Spec /\ WF_vars(Next)

----------------------------------------------------------------------------
(* Vocabulary of the properties *)

Terminal == {"done", "raised"}

AllSucceeded == \A j \in 1 .. Len(invocations) : invocations[j].code = 0

InRange(i) == 0 <= i /\ i < N

\* feature_extractor, exhaustive_matcher and mapper of frame 0 all exited 0
ColRefSucceeded ==
    /\ prog = "colalign"
    /\ Len(invocations) >= 3
    /\ \A j \in 1 .. 3 : invocations[j].frame = 0 /\ invocations[j].code = 0
    /\ invocations[1].tool = "feature_extractor"
    /\ invocations[2].tool = "exhaustive_matcher"
    /\ invocations[3].tool = "mapper"

\* some tool invocation of the reference frame exited nonzero
ColRefFailed ==
    /\ prog = "colalign"
    /\ \E j \in 1 .. Len(invocations) :
         invocations[j].frame = 0 /\ invocations[j].code # 0

\* the frames after the first that have an images folder, in list order
ExpectedSubsequent ==
    SelectSeq(SubSeq(frame_folders, 2, N), LAMBDA f : hasImages[f])

\* frame k > 0 has been touched: a directory, an artifact or a tool call
Touched(k) ==
    \/ dirs[k] # {}
    \/ files[k] # NoFiles
    \/ \E j \in 1 .. Len(invocations) : invocations[j].frame = k
    \/ \E j \in 1 .. Len(spawns) : spawns[j].frame = k
    \/ \E j \in 1 .. Len(processed) : processed[j] = k

----------------------------------------------------------------------------
(* C1: in colalign.main a nonzero exit of any tool run on the reference     *)
(* frame ends the run with an error, and no frame k > 0 is touched: no      *)
(* directory created, no artifact copied, no tool invoked.                  *)
C1_ReferenceFailFast ==
    ColRefFailed =>
        /\ pc = "raised"
        /\ err = "RuntimeError"
        /\ \A k \in FrameIds \ {0} : ~Touched(k)

C1_Witness ==
    /\ ColRefFailed
    /\ N >= 2
    /\ hasImages[1]
    /\ Len(invocations) = 3

(* C2: in colalign.main, once the reference frame has succeeded, whatever   *)
(* the tools of the subsequent frames return, the run reaches its end       *)
(* having attempted every subsequent frame that has an images folder, in    *)
(* list order.                                                              *)
C2_ContinueOnError ==
    ColRefSucceeded ~> (pc = "done" /\ SubSeq(processed, 2, Len(processed)) = ExpectedSubsequent)

C2_Witness ==
    /\ prog = "colalign"
    /\ pc = "done"
    /\ \E j \in 1 .. Len(invocations) :
         invocations[j].frame = 1 /\ invocations[j].code # 0
    /\ \E j \in 1 .. Len(invocations) : invocations[j].frame = 2

(* C3: in the batch loop of postshot_train.main a failed tool invocation    *)
(* for a non-first index of the plan is caught: it does not end the run     *)
(* with an exception.                                                       *)
C3_FailureCaught ==
    (/\ prog = "postshot"
     /\ ~test_mode
     /\ \E j \in 2 .. Len(invocations) : invocations[j].code # 0)
    => pc # "raised"

(* C4: in colalign.main nothing is done for a frame k > 0 (no directory,    *)
(* no copy, no tool) before feature_extractor, exhaustive_matcher and       *)
(* mapper of frame 0 have all exited 0; the mapper only ever runs on        *)
(* frame 0, the first of the sorted list.                                   *)
C4_ReferenceBeforePropagation ==
    prog = "colalign" =>
        /\ (\E k \in FrameIds \ {0} : Touched(k)) => ColRefSucceeded
        /\ \A j \in 1 .. Len(invocations) :
             invocations[j].tool = "mapper" => invocations[j].frame = 0
        /\ \A j \in 1 .. Len(invocations) :
             invocations[j].frame = 0 => j <= 3
        /\ processed # <<>> => processed[1] = 0

C4_Witness ==
    /\ prog = "colalign"
    /\ \E j \in 1 .. Len(invocations) :
         invocations[j].frame = 2 /\ invocations[j].tool = "point_triangulator"

(* C5 as claimed: every non-test plan processes frame index 0 first.        *)
C5_FrameZeroFirst ==
    (prog = "postshot" /\ ~test_mode /\ processed # <<>>) => processed[1] = 0

(* C5 amended: the first frame a non-test plan processes is the start       *)
(* index, which lies in [0, N); frame 0 comes first only when the plan      *)
(* starts at 0.                                                             *)
C5_StartIndexFirst ==
    (prog = "postshot" /\ ~test_mode /\ processed # <<>>) =>
        /\ processed[1] = start_index
        /\ InRange(start_index)

C5_Witness ==
    /\ prog = "postshot"
    /\ ~test_mode
    /\ reverse
    /\ N = 5
    /\ start_index = 4
    /\ count = 3
    /\ pc = "done"
    /\ processed[1] = 4
    /\ \A j \in 1 .. Len(processed) : processed[j] # 0

(* C6: forward mode, start in [0, N), count > 0, every tool succeeds: the   *)
(* frames processed are exactly start, start+1, ..., min(start+count, N)-1. *)
C6_ForwardPlan ==
    (/\ prog = "postshot"
     /\ ~test_mode
     /\ ~reverse
     /\ pc = "done"
     /\ AllSucceeded
     /\ InRange(start_index)
     /\ count > 0)
    => /\ processed =
            [k \in 1 .. (Min(start_index + count, N) - start_index) |->
                start_index + (k - 1)]
       /\ Len(processed) <= count
       /\ \A j \in 1 .. Len(processed) : processed[j] < N

C6_Witness ==
    /\ prog = "postshot"
    /\ ~test_mode
    /\ ~reverse
    /\ pc = "done"
    /\ AllSucceeded
    /\ start_index = 1
    /\ count = 4
    /\ N = 3
    /\ processed = <<1, 2>>

(* C7: reverse mode, start in [0, N), count > 0, every tool succeeds: the   *)
(* frames processed are start, start-1, ..., exactly min(count, start+1)    *)
(* of them.                                                                 *)
C7_ReversePlan ==
    (/\ prog = "postshot"
     /\ ~test_mode
     /\ reverse
     /\ pc = "done"
     /\ AllSucceeded
     /\ InRange(start_index)
     /\ count > 0)
    => processed =
         [k \in 1 .. Min(count, start_index + 1) |-> start_index - (k - 1)]

(* C8: in test mode only index 0 of the sorted list is ever processed, and  *)
(* a run that passed the gate and ended processed exactly that one frame,   *)
(* whatever start index, count and direction are.                           *)
C8_TestModeOnlyFirst ==
    (prog = "postshot" /\ test_mode) =>
        /\ processed \in {<<>>, <<0>>}
        /\ Len(invocations) <= 1
        /\ (acked /\ pc \in Terminal) => processed = <<0>>

C8_Witness ==
    /\ prog = "postshot"
    /\ test_mode
    /\ reverse
    /\ start_index = 2
    /\ count = 3
    /\ N = 4
    /\ pc = "done"
    /\ processed = <<0>>

(* C9: the batch loop never subscripts frame_folders outside [0, N): no     *)
(* IndexError and no wrap through a negative index; a plan reaching beyond  *)
(* an end is cut there.                                                     *)
C9_NoOutOfRangeAccess ==
    prog = "postshot" =>
        /\ \A j \in 1 .. Len(accessed) : InRange(accessed[j])
        /\ err # "IndexError"

C9_Witness ==
    /\ prog = "postshot"
    /\ ~test_mode
    /\ reverse
    /\ pc = "done"
    /\ pos <= Len(rng)
    /\ rng[pos] < 0
    /\ Len(processed) >= 2

\* the count indices a plan asks for, before clipping
Requested ==
    IF reverse THEN [k \in 1 .. count |-> start_index - (k - 1)]
    ELSE [k \in 1 .. count |-> start_index + (k - 1)]

(* C10: for any start, count > 0 and either direction, when every tool      *)
(* succeeds the frames processed are the requested indices that lie in      *)
(* [0, N), in plan order, also when the start index itself is outside.      *)
C10_ClippedPlan ==
    (/\ prog = "postshot"
     /\ ~test_mode
     /\ pc = "done"
     /\ AllSucceeded
     /\ count > 0)
    => processed = SelectSeq(Requested, InRange)

(* C11: in postshot_train.main no child process is started and no frame is  *)
(* handled before the operator has passed the input() gate, in test mode    *)
(* too; a run stopped at the gate has done no work, and the gate is the     *)
(* only place where the run is cancelled.                                   *)
C11_GateBeforeWork ==
    prog = "postshot" =>
        /\ ~acked => (spawns = <<>> /\ invocations = <<>> /\ processed = <<>>
                      /\ accessed = <<>> /\ inflight = 0)
        /\ err = "KeyboardInterrupt" => (~acked /\ spawns = <<>>)

C11_Witness ==
    /\ prog = "postshot"
    /\ test_mode
    /\ N >= 1
    /\ pc = "raised"
    /\ err = "KeyboardInterrupt"

(* C12: in postshot_train.main a missing project, output or tool path, a    *)
(* missing config file, an absent config key or an empty frame list ends    *)
(* the run with an error before the gate: no child process is ever started  *)
(* and no frame is handled.                                                 *)
C12_ConfigErrorBeforeWork ==
    (prog = "postshot" /\ (missing # {} \/ N = 0)) =>
        /\ pc \in {"main", "raised"}
        /\ pc = "raised" => err \in {"RuntimeError", "KeyError"}
        /\ ~acked
        /\ spawns = <<>>
        /\ invocations = <<>>
        /\ processed = <<>>

C12_Witness ==
    /\ prog = "postshot"
    /\ missing = {"antiAliasing"}
    /\ N >= 1
    /\ pc = "raised"
    /\ err = "KeyError"

(* C15: every runner call starts exactly one child process, and within a    *)
(* run no command is started twice for the same frame, in particular not    *)
(* after it failed.                                                         *)
C15_NoRetry ==
    /\ \A i, j \in 1 .. Len(spawns) : i # j => spawns[i] # spawns[j]
    /\ Len(spawns) \in {Len(invocations), Len(invocations) + 1}
    /\ \A j \in 1 .. Len(invocations) :
         spawns[j] = Command(invocations[j].frame, invocations[j].tool)

C15_Witness ==
    /\ prog = "colalign"
    /\ \E j \in 1 .. Len(invocations) :
         invocations[j].frame = 1 /\ invocations[j].code # 0
    /\ \E j \in 1 .. Len(spawns) : spawns[j].frame = 2
    /\ pc = "done"

(* C17: at any moment of a colalign or postshot_train run at most one       *)
(* child process is in flight, and it is the one of the runner call in      *)
(* progress: a child is started only after the previous one was waited for. *)
C17_OneChildInFlight ==
    /\ inflight \in {0, 1}
    /\ inflight = 1 <=> ChildStarted

C17_Witness ==
    /\ inflight = 1
    /\ Len(spawns) >= 3
    /\ prog = "postshot"

\* colalign is inside process_subsequent_frame for the frame at pos
InSubsequent ==
    /\ prog = "colalign"
    /\ pc \in {"loop", "psf_extract", "psf_match", "psf_triangulate"}
    /\ pos < N

(* C18: once process_first_frame has succeeded, no step taken for a         *)
(* subsequent frame k, failing or not, changes the files or directories of  *)
(* the reference frame or of any frame other than k: artifacts are copied,  *)
(* not moved, and the tools of frame k write inside frame k only.           *)
C18_OtherFramesUntouched ==
    [][InSubsequent =>
         \A j \in FrameIds \ {frame_folders[pos + 1]} :
            files'[j] = files[j] /\ dirs'[j] = dirs[j]]_vars

C18_Witness ==
    /\ prog = "colalign"
    /\ pc = "done"
    /\ N = 3
    /\ files[0] = [a \in Artifacts |-> 1]
    /\ files[1]["points3D.bin"] = 1
    /\ files[2]["points3D.bin"] = 2
    /\ \E j \in 1 .. Len(invocations) :
         invocations[j].frame = 1 /\ invocations[j].code # 0

(* C19 as claimed: a subsequent frame whose point_triangulator exited 0     *)
(* holds three artifact files identical to those of the reference frame.    *)
C19_IdenticalAtCompletion ==
    prog = "colalign" =>
        \A j \in 1 .. Len(invocations) :
            (invocations[j].tool = "point_triangulator" /\ invocations[j].code = 0)
            => files[invocations[j].frame] = files[0]

(* C19 amended: from the end of the copy step of a subsequent frame until   *)
(* its point_triangulator has run, the three artifact files of that frame   *)
(* are all present and identical to those of the reference frame.           *)
C19_IdenticalAfterCopy ==
    (prog = "colalign" /\ pc \in {"psf_extract", "psf_match", "psf_triangulate"})
    => /\ files[frame_folders[pos + 1]] = files[0]
       /\ \A a \in Artifacts : files[frame_folders[pos + 1]][a] # 0
       /\ "sparse/0" \in dirs[frame_folders[pos + 1]]

C19_Witness ==
    /\ prog = "colalign"
    /\ pc = "psf_triangulate"
    /\ pos = 2
    /\ files[2] = files[0]
    /\ files[1] # files[0]

(* C20: repeating the propagation step for the same frame with an unchanged *)
(* reference succeeds again and changes neither the files nor the           *)
(* directories the first run left.                                          *)
C20_CopyIdempotent ==
    [][(prog = "copy" /\ pc = "copy" /\ pos >= 1) =>
         /\ pc' = "copy"
         /\ err' = "none"
         /\ files' = files
         /\ dirs' = dirs]_vars

C20_Witness ==
    /\ prog = "copy"
    /\ pc = "copy"
    /\ pos = 2
    /\ files[1] = files[0]
    /\ files[0] = [a \in Artifacts |-> 1]

\* the elements of a sequence
Range(q) == {q[k] : k \in 1 .. Len(q)}

(* C13: a process runner that has ended returned normally exactly when its  *)
(* child exited with code 0; for any other code it raised, and the error    *)
(* names that code.                                                         *)
C13_ReturnsIffZero ==
    prog = "runner" =>
        /\ rpc = "end" <=> result # "none"
        /\ result = "returned" => exitcode = 0
        /\ result = "raised" => (exitcode # 0 /\ error.returncode = exitcode)

C13_Witness ==
    /\ prog = "runner"
    /\ runner = "run_command"
    /\ result = "raised"
    /\ exitcode = 0 - 1
    /\ Len(stdout_lines) = 2

(* C14: the error a process runner raises on a nonzero exit carries the     *)
(* exit code, the captured stdout, the captured stderr and the argv of the  *)
(* failing command.                                                         *)
C14_ErrorCarriesOutput ==
    (prog = "runner" /\ result = "raised") =>
        /\ {"returncode", "stdout", "stderr", "argv"} \subseteq DOMAIN error
        /\ error.returncode = exitcode
        /\ error.stdout = stdout_lines
        /\ error.stderr = stderr_lines

(* C16: every process runner prints each line of its child as the line     *)
(* arrives, so that it never holds a line it has read and not printed, and  *)
(* it returns or raises only after the child has exited.                    *)
C16_StreamsOutput ==
    prog = "runner" =>
        /\ \A line \in Range(stdout_lines) \cup Range(stderr_lines) :
              \E p \in Range(printed) : p.text = line
        /\ result # "none" => ~alive

\* the frame directories of the project: sub-directories named frame_...
FrameDirNames == {d \in DOMAIN entries : IsFrameDir(d)}

(* C21: frame discovery ends with exactly the immediate sub-directories     *)
(* whose name starts with "frame_", each once, in ascending lexicographic   *)
(* order of name, whatever the order of the directory listing; files and    *)
(* other directories are left out, and it raises exactly when there is no   *)
(* such directory.                                                          *)
C21_DiscoverySorted ==
    (prog = "discover" /\ pc \in {"found", "raised"}) =>
        /\ Range(frame_folders) = FrameDirNames
        /\ Len(frame_folders) = Cardinality(FrameDirNames)
        /\ \A i, j \in 1 .. Len(frame_folders) :
             i < j => StrLess(frame_folders[i], frame_folders[j])
        /\ pc = "raised" <=> FrameDirNames = {}
        /\ pc = "raised" => err = "RuntimeError"

C21_Witness ==
    /\ prog = "discover"
    /\ pc = "found"
    /\ Len(listing) = 3
    /\ listing[1] = FramePrefix \o <<50>>
    /\ frame_folders = <<FramePrefix \o <<49, 50>>, FramePrefix \o <<50>>>>

(* C22: a frame directory without an images sub-directory is never handed   *)
(* to a frame processor: no tool is started for it and no directory is      *)
(* created in it; a colalign run that ended normally skipped such frames    *)
(* and processed the frames after them.                                     *)
C22_ImagesRequired ==
    /\ \A j \in 1 .. Len(processed) : hasImages[processed[j]]
    /\ \A j \in 1 .. Len(spawns) : hasImages[spawns[j].frame]
    /\ \A k \in FrameIds : ~hasImages[k] => dirs[k] = {}
    /\ (prog = "colalign" /\ pc = "done") =>
          SubSeq(processed, 2, Len(processed)) = ExpectedSubsequent

(* C23: once the reference frame has succeeded, colalign.main ends          *)
(* normally, without an exception, whatever fails in the subsequent frames; *)
(* it ends with an exception only before any tool was started (project      *)
(* path, frame list or first images folder missing) or when a tool of the   *)
(* reference frame failed.                                                  *)
C23_NormalExit ==
    /\ []((prog = "colalign" /\ pc = "raised") =>
            /\ ~ColRefSucceeded
            /\ err = "RuntimeError"
            /\ (spawns = <<>> \/ ColRefFailed))
    /\ ColRefSucceeded ~> (pc = "done" /\ err = "none")

C23_Witness ==
    /\ prog = "colalign"
    /\ pc = "done"
    /\ err = "none"
    /\ N = 3
    /\ \E j \in 1 .. Len(invocations) :
         /\ invocations[j].frame = 1
         /\ invocations[j].tool = "feature_extractor"
         /\ invocations[j].code = 1
    /\ \E j \in 1 .. Len(invocations) :
         /\ invocations[j].frame = 2
         /\ invocations[j].tool = "point_triangulator"
         /\ invocations[j].code = 0 - 1

\* the reference frame holds a reconstruction directory with all three files
RefComplete ==
    /\ "sparse/0" \in dirs[0]
    /\ \A a \in Artifacts : files[0][a] # 0

(* C24: when the reference reconstruction directory or one of cameras.bin,  *)
(* images.bin, points3D.bin is missing after the reference frame succeeded, *)
(* no tool is ever started for a subsequent frame, the error of each such   *)
(* frame is caught, and the run goes on to attempt every later frame and    *)
(* ends normally.                                                           *)
C24_MissingArtifactFailsFrame ==
    (prog = "colalign" /\ ColRefSucceeded /\ ~RefComplete) =>
        /\ \A j \in 1 .. Len(spawns) : spawns[j].frame = 0
        /\ pc \in {"loop", "done"}
        /\ err = "none"
        /\ pc = "done" => SubSeq(processed, 2, Len(processed)) = ExpectedSubsequent

C24_Witness ==
    /\ prog = "colalign"
    /\ pc = "done"
    /\ N = 3
    /\ "sparse/0" \in dirs[0]
    /\ files[0]["cameras.bin"] = 1
    /\ files[0]["points3D.bin"] = 0
    /\ files[1]["cameras.bin"] = 1
    /\ processed = <<0, 1, 2>>
    /\ Len(spawns) = 3

(* C25: every COLMAP command of a colalign run is started with the          *)
(* executable given by --colmap_exe ("colmap" when the option is absent).   *)
C25_UsesColmapExe ==
    prog = "colalign" =>
        \A j \in 1 .. Len(spawns) : spawns[j].exe = args.colmap_exe

(* C26: with --count <= 0 a postshot_train run whose tools all succeed      *)
(* processes every frame once: indices 0 .. N-1 in ascending order from     *)
(* start 0 in forward direction, indices N-1 .. 0 in descending order from  *)
(* start N-1 in reverse direction.                                          *)
C26_DefaultCountAllFrames ==
    (/\ prog = "postshot"
     /\ ~test_mode
     /\ pc = "done"
     /\ AllSucceeded
     /\ args.count <= 0)
    => /\ count = N
       /\ (~reverse /\ start_index = 0) => processed = [k \in 1 .. N |-> k - 1]
       /\ (reverse /\ start_index = N - 1) => processed = [k \in 1 .. N |-> N - k]

C26_Witness ==
    /\ prog = "postshot"
    /\ ~test_mode
    /\ pc = "done"
    /\ args.count = 0 - 1
    /\ reverse
    /\ N = 4
    /\ start_index = 3
    /\ processed = <<3, 2, 1, 0>>

\* the commands started so far for frame k, in order
SpawnedFor(k) == SelectSeq(spawns, LAMBDA c : c.frame = k)

\* the commands that have ended so far for frame k, in order
InvokedFor(k) == SelectSeq(invocations, LAMBDA v : v.frame = k)

\* q is an initial part of r
IsPrefix(q, r) == Len(q) <= Len(r) /\ q = SubSeq(r, 1, Len(q))

\* the steps of process_first_frame
FirstFrameSteps == <<"feature_extractor", "exhaustive_matcher", "mapper">>

(* C27: process_first_frame starts feature_extractor, exhaustive_matcher    *)
(* and mapper in this order, each at most once; a step is started only      *)
(* after every earlier step exited 0, so that nothing is started after a    *)
(* nonzero exit; main goes on past process_first_frame only when all three  *)
(* exited 0.                                                                *)
C27_FirstFrameSequence ==
    prog = "colalign" =>
        /\ IsPrefix([j \in 1 .. Len(SpawnedFor(0)) |-> SpawnedFor(0)[j].tool],
                    FirstFrameSteps)
        /\ \A j \in 1 .. Len(SpawnedFor(0)) :
              \A i \in 1 .. (j - 1) :
                 i <= Len(InvokedFor(0)) /\ InvokedFor(0)[i].code = 0
        /\ pc \in {"loop", "done", "psf_extract", "psf_match", "psf_triangulate"}
              => ColRefSucceeded

C27_Witness ==
    /\ prog = "colalign"
    /\ pc = "raised"
    /\ Len(SpawnedFor(0)) = 2
    /\ Len(InvokedFor(0)) = 2
    /\ InvokedFor(0)[2].code = 1
    /\ N >= 2
    /\ hasImages[1]

\* the steps of process_subsequent_frame after the copy
SubsequentSteps == <<"feature_extractor", "exhaustive_matcher", "point_triangulator">>

(* C28: for every subsequent frame no tool is started before its sparse/0   *)
(* holds all three artifact files; the tools are started in the order       *)
(* feature_extractor, exhaustive_matcher, point_triangulator, each at most  *)
(* once and only after every earlier one exited 0, so that a failed step is *)
(* the last step of its frame.                                              *)
C28_SubsequentFrameSequence ==
    prog = "colalign" =>
        \A k \in FrameIds \ {0} :
            /\ SpawnedFor(k) # <<>> =>
                  /\ "sparse/0" \in dirs[k]
                  /\ \A a \in Artifacts : files[k][a] # 0
            /\ IsPrefix([j \in 1 .. Len(SpawnedFor(k)) |-> SpawnedFor(k)[j].tool],
                        SubsequentSteps)
            /\ \A j \in 1 .. Len(SpawnedFor(k)) :
                  \A i \in 1 .. (j - 1) :
                     i <= Len(InvokedFor(k)) /\ InvokedFor(k)[i].code = 0

C28_Witness ==
    /\ prog = "colalign"
    /\ pc = "done"
    /\ N = 3
    /\ Len(InvokedFor(1)) = 2
    /\ InvokedFor(1)[2].code = 1
    /\ Len(InvokedFor(2)) = 3
    /\ InvokedFor(2)[3].code = 0

(* C29: every call of run_command_adv ends: it returns or raises for every  *)
(* child that writes finitely many lines to stdout and stderr and exits,    *)
(* the runner never waiting for a line of one stream while the child waits  *)
(* to write to the other.                                                   *)
C29_AdvTerminates ==
    (prog = "runner" /\ runner = "run_command_adv") ~> (result # "none")

\* the texts of the lines the child writes to the streams of S, in order
Written(S) ==
    LET w == SelectSeq(script, LAMBDA l : l.stream \in S)
    IN [k \in 1 .. Len(w) |-> w[k].text]

\* the non-empty strings of q, in order
NonEmpty(q) == SelectSeq(q, LAMBDA t : t # <<>>)

(* C30: when run_command or run_command_adv has returned or raised, the     *)
(* captured stdout is the sequence of the non-empty lines the child wrote   *)
(* to the stdout pipe, in the order written, none lost and none twice, and  *)
(* likewise the captured stderr of run_command_adv.                         *)
C30_CapturedComplete ==
    (prog = "runner" /\ result # "none") =>
        /\ runner = "run_command" =>
              stdout_lines = NonEmpty(Written(Streams))
        /\ runner = "run_command_adv" =>
              /\ stdout_lines = NonEmpty(Written({"out"}))
              /\ stderr_lines = NonEmpty(Written({"err"}))

====
